---- MODULE Spec2Model ----
(***************************************************************************)
(* cronprom: the metric collector (internal/services/collector), the       *)
(* configuration model and its validation (internal/data/config) and the   *)
(* start-up sequence that builds the collector from a configuration.       *)
(*                                                                         *)
(* Strings that the code inspects character by character (metric names,    *)
(* the namespace) are sequences of one-character strings.  Floats are      *)
(* integers.  A Go map[string]string is a record [nil, m]: nil tells the   *)
(* nil map from an allocated one, m is the function from keys to values.   *)
(***************************************************************************)
EXTENDS Integers, Sequences, FiniteSets, TLC

VARIABLES
    file,        \* the configuration as decoded from the YAML file
    config,      \* the Config object that LoadConfig validates and Serve passes on
    phase,       \* position of Serve: "start", "loaded", "built", "serving", "failed"
    startErr,    \* the error Serve returned ("" while none)
    coll,        \* the MetricCollector (config, registry, the four maps)
    scheme,      \* name validation scheme the Prometheus library applied to the build
    last,        \* the last update call: its arguments, normalized labels, result
    nops,        \* number of update calls made so far
    applied,     \* per counter and combination: sum of the deltas of completed adds
    lastSet,     \* per gauge and combination: the last completed Set and its repetitions
    pc,          \* per concurrent caller: its position inside IncrementCounterBy
    req,         \* per concurrent caller: the arguments and locals of its call
    calls        \* per concurrent caller: number of calls it has completed

vars == <<file, config, phase, startErr, coll, scheme, last, nops, applied, lastSet,
          pc, req, calls>>

(***************************************************************************)
(* Bounds of the model.                                                    *)
(***************************************************************************)
MaxDefs == 2
MaxOps == 2
NumProcs == 2
MaxCalls == 2

(***************************************************************************)
(* Generic helpers.                                                        *)
(***************************************************************************)
Range(s) == {s[i] : i \in 1..Len(s)}

Contains(s, x) == \E i \in 1..Len(s) : s[i] = x

EmptyMap == [k \in {} |-> ""]

Put(f, k, v) == [x \in (DOMAIN f) \cup {k} |-> IF x = k THEN v ELSE f[x]]

NilLabels == [nil |-> TRUE, m |-> EmptyMap]

MakeLabels(f) == [nil |-> FALSE, m |-> f]

(***************************************************************************)
(* Characters and names.                                                   *)
(***************************************************************************)
Letters == {"a", "c", "g", "h", "j", "n", "s", "u"}

Digits == {"1"}

IsSafeChar(ch) == ch \in Letters \/ ch \in Digits \/ ch = "_"

\* sanitizeMetricName: every rune outside [a-zA-Z0-9_] becomes '_', and a
\* leading digit is prefixed with '_'.
sanitizeMetricName(name) ==
    LET sanitized == [i \in 1..Len(name) |-> IF IsSafeChar(name[i]) THEN name[i] ELSE "_"]
    IN  IF Len(sanitized) > 0 /\ sanitized[1] \in Digits
        THEN <<"_">> \o sanitized
        ELSE sanitized

\* prometheus.BuildFQName(namespace, "", name)
BuildFQName(namespace, name) ==
    IF name = <<>> THEN <<>>
    ELSE IF namespace # <<>> THEN namespace \o <<"_">> \o name
    ELSE name

\* model.IsValidMetricName under the two validation schemes of the library:
\* legacy is [a-zA-Z_:][a-zA-Z0-9_:]*, utf8 is any non-empty string.
NameValidationSchemes == {"legacy", "utf8"}

IsValidMetricName(sch, fq) ==
    /\ Len(fq) > 0
    /\ sch = "legacy" =>
          /\ fq[1] \in Letters \cup {"_", ":"}
          /\ \A i \in 1..Len(fq) : IsSafeChar(fq[i]) \/ fq[i] = ":"

(***************************************************************************)
(* internal/data/config: the configuration model and its validation.       *)
(***************************************************************************)
MetricTypeGauge == "gauge"
MetricTypeCounter == "counter"
MetricTypeHistogram == "histogram"
MetricTypeSummary == "summary"

MetricTypes == {MetricTypeGauge, MetricTypeCounter, MetricTypeHistogram, MetricTypeSummary}

MetricConfig(name, type, labels, buckets, objectives) ==
    [Name |-> name, Type |-> type, Labels |-> labels,
     Buckets |-> buckets, Objectives |-> objectives]

\* time.ParseDuration on the refresh interval: 0 stands for a parse error.
ParseDuration(s) == IF s = "30s" THEN 30 ELSE 0

\* GlobalConfig.ParsedRefreshInterval: the cached value, else the parsed one.
ParsedRefreshInterval(g) ==
    IF g.parsedInterval # 0 THEN [err |-> "", g |-> g]
    ELSE IF ParseDuration(g.RefreshInterval) = 0
         THEN [err |-> "InvalidRefreshInterval", g |-> g]
         ELSE [err |-> "", g |-> [g EXCEPT !.parsedInterval = ParseDuration(g.RefreshInterval)]]

MetricConfigValidateNoBuckets(m) ==
    IF m.Name = <<>> THEN "EmptyName"
    ELSE IF m.Type \in {MetricTypeGauge, MetricTypeCounter, MetricTypeHistogram} THEN ""
    ELSE IF m.Type = MetricTypeSummary
         THEN (IF Cardinality(m.Objectives) = 0 THEN "MissingObjectives" ELSE "")
    ELSE "UnknownKind"

\* MetricConfig.Validate
MetricConfigValidate(m) ==
    IF m.Name = <<>> THEN "EmptyName"
    ELSE IF m.Type \in {MetricTypeGauge, MetricTypeCounter} THEN ""
    ELSE IF m.Type = MetricTypeHistogram
         THEN (IF Len(m.Buckets) = 0 THEN "MissingBuckets" ELSE "")
    ELSE IF m.Type = MetricTypeSummary
         THEN (IF Cardinality(m.Objectives) = 0 THEN "MissingObjectives" ELSE "")
    ELSE "UnknownKind"

\* The loop of Config.Validate over c.Metrics from index i on, with the set
\* metricNames of the names seen so far; every validated metric is stored
\* back at its index.
RECURSIVE ValidateMetrics(_, _, _)
ValidateMetrics(metrics, i, metricNames) ==
    IF i > Len(metrics) THEN [err |-> "", metrics |-> metrics]
    ELSE LET metric == metrics[i]
             e == MetricConfigValidate(metric)
         IN  IF e # "" THEN [err |-> e, metrics |-> metrics]
             ELSE IF metric.Name \in metricNames
                  THEN [err |-> "DuplicateName", metrics |-> metrics]
             ELSE ValidateMetrics([metrics EXCEPT ![i] = metric], i + 1,
                                  metricNames \cup {metric.Name})

\* Config.Validate
ConfigValidate(c) ==
    IF c.Global.Namespace = <<>> THEN [err |-> "EmptyNamespace", config |-> c]
    ELSE LET p == ParsedRefreshInterval(c.Global)
             c1 == [c EXCEPT !.Global = p.g]
         IN  IF p.err # "" THEN [err |-> p.err, config |-> c1]
             ELSE LET v == ValidateMetrics(c1.Metrics, 1, {})
                  IN  [err |-> v.err, config |-> [c1 EXCEPT !.Metrics = v.metrics]]

\* LoadConfig after the file has been read and decoded
LoadConfig(f) ==
    LET r == ConfigValidate(f)
    IN  IF r.err # "" THEN [err |-> r.err, config |-> f] ELSE [err |-> "", config |-> r.config]

(***************************************************************************)
(* The Prometheus vectors and the registry, as the collector uses them.    *)
(***************************************************************************)
Filler == "<missing>"

\* registry.Register: rejects a descriptor with an invalid name, with
\* duplicate label names, or whose fully-qualified name is registered.
RegistryRegister(registry, sch, fq, labelNames) ==
    IF ~IsValidMetricName(sch, fq) THEN [ok |-> FALSE, registry |-> registry]
    ELSE IF Cardinality(Range(labelNames)) # Len(labelNames)
         THEN [ok |-> FALSE, registry |-> registry]
    ELSE IF fq \in registry THEN [ok |-> FALSE, registry |-> registry]
    ELSE [ok |-> TRUE, registry |-> registry \cup {fq}]

\* prometheus.New{Gauge,Counter,Histogram,Summary}Vec: no child yet.
NewVec(labelNames, buckets) ==
    [labelNames |-> labelNames, buckets |-> buckets, children |-> EmptyMap]

\* vec.With(labels) panics unless labels holds exactly the declared names.
VecAccepts(vec, lm) == DOMAIN lm.m = Range(vec.labelNames)

\* vec.With that keeps no other child
VecWithReset(vec, lm, zero) ==
    [vec EXCEPT !.children = [k \in {lm.m} |-> IF lm.m \in DOMAIN @ THEN @[lm.m] ELSE zero]]

VecWithFresh(vec, lm, zero) ==
    [vec EXCEPT !.children = Put(@, lm.m, zero)]

\* vec.With(labels): the child of the combination, created on first use.
VecWith(vec, lm, zero) ==
    [vec EXCEPT !.children = IF lm.m \in DOMAIN @ THEN @ ELSE Put(@, lm.m, zero)]

GaugeSetAdds(cur, v) == cur + v

\* Gauge.Set
GaugeSet(cur, v) == v

CounterAddSets(cur, v) == v

\* Counter.Add for v >= 0 (a negative v panics: CounterAddPanics)
CounterAdd(cur, v) == cur + v

CounterAddPanics(v) == v < 0

HistogramZero(buckets) ==
    [counts |-> [i \in 1..(Len(buckets) + 1) |-> 0], sum |-> 0, count |-> 0]

\* Histogram.Observe: the first bucket whose upper bound is >= v, else +Inf
HistogramObserve(child, buckets, v) ==
    LET hit == {i \in 1..Len(buckets) : v <= buckets[i]}
        b == IF hit = {} THEN Len(buckets) + 1
             ELSE CHOOSE i \in hit : \A j \in hit : i <= j
    IN  [counts |-> [child.counts EXCEPT ![b] = @ + 1],
         sum |-> child.sum + v, count |-> child.count + 1]

SummaryZero == [sum |-> 0, count |-> 0]

\* Summary.Observe
SummaryObserve(child, v) == [sum |-> child.sum + v, count |-> child.count + 1]

(***************************************************************************)
(* internal/services/collector: MetricCollector.                           *)
(***************************************************************************)
EmptyCollector(cfg) ==
    [config |-> cfg, registry |-> {}, gauges |-> EmptyMap, counters |-> EmptyMap,
     histograms |-> EmptyMap, summaries |-> EmptyMap]

registerMetricAlsoCounter(c, sch, metricCfg) ==
    LET r == RegistryRegister(c.registry, sch,
                              BuildFQName(c.config.Global.Namespace, metricCfg.Name),
                              metricCfg.Labels)
        vec == NewVec(metricCfg.Labels, metricCfg.Buckets)
        c1 == [c EXCEPT !.registry = r.registry]
    IN  IF ~r.ok THEN [err |-> "RegistrationError", coll |-> c]
        ELSE IF metricCfg.Type = MetricTypeGauge
             THEN [err |-> "", coll |-> [c1 EXCEPT !.gauges = Put(@, metricCfg.Name, vec),
                                                   !.counters = Put(@, metricCfg.Name, vec)]]
        ELSE IF metricCfg.Type = MetricTypeCounter
             THEN [err |-> "", coll |-> [c1 EXCEPT !.counters = Put(@, metricCfg.Name, vec)]]
        ELSE IF metricCfg.Type = MetricTypeHistogram
             THEN [err |-> "", coll |-> [c1 EXCEPT !.histograms = Put(@, metricCfg.Name, vec)]]
        ELSE [err |-> "", coll |-> [c1 EXCEPT !.summaries = Put(@, metricCfg.Name, vec)]]

\* MetricCollector.registerMetric
registerMetric(c, sch, metricCfg) ==
    LET namespace == c.config.Global.Namespace
        metricName == metricCfg.Name
        r == RegistryRegister(c.registry, sch, BuildFQName(namespace, metricName),
                              metricCfg.Labels)
        vec == NewVec(metricCfg.Labels, metricCfg.Buckets)
        c1 == [c EXCEPT !.registry = r.registry]
    IN  IF metricCfg.Type \notin MetricTypes THEN [err |-> "UnsupportedType", coll |-> c]
        ELSE IF ~r.ok THEN [err |-> "RegistrationError", coll |-> c]
        ELSE IF metricCfg.Type = MetricTypeGauge
             THEN [err |-> "", coll |-> [c1 EXCEPT !.gauges = Put(@, metricName, vec)]]
        ELSE IF metricCfg.Type = MetricTypeCounter
             THEN [err |-> "", coll |-> [c1 EXCEPT !.counters = Put(@, metricName, vec)]]
        ELSE IF metricCfg.Type = MetricTypeHistogram
             THEN [err |-> "", coll |-> [c1 EXCEPT !.histograms = Put(@, metricName, vec)]]
        ELSE [err |-> "", coll |-> [c1 EXCEPT !.summaries = Put(@, metricName, vec)]]

\* registerMetrics that returns after the first definition
registerMetricsFirstOnly(c, sch, i) ==
    IF i > Len(c.config.Metrics) THEN [err |-> "", coll |-> c]
    ELSE registerMetric(c, sch, c.config.Metrics[i])

\* MetricCollector.registerMetrics: the loop over c.config.Metrics from i on
RECURSIVE registerMetrics(_, _, _)
registerMetrics(c, sch, i) ==
    IF i > Len(c.config.Metrics) THEN [err |-> "", coll |-> c]
    ELSE LET r == registerMetric(c, sch, c.config.Metrics[i])
         IN  IF r.err # "" THEN [err |-> r.err, coll |-> r.coll]
             ELSE registerMetrics(r.coll, sch, i + 1)

\* NewMetricCollector (cfg is never nil here: Serve passes LoadConfig's result)
NewMetricCollector(cfg, sch) == registerMetrics(EmptyCollector(cfg), sch, 1)

\* The index of the first metric of the configuration named metricName, 0 if none
FindMetric(cfg, metricName) ==
    LET hit == {i \in 1..Len(cfg.Metrics) : cfg.Metrics[i].Name = metricName}
    IN  IF hit = {} THEN 0 ELSE CHOOSE i \in hit : \A j \in hit : i <= j

cleanLabelsNoRemove(c, metricName, labels) ==
    LET i == FindMetric(c.config, metricName)
        declared == IF i = 0 THEN <<>> ELSE c.config.Metrics[i].Labels
        missing == Range(declared) \ DOMAIN labels.m
    IN  IF i = 0 THEN [res |-> "not found", labels |-> NilLabels]
        ELSE IF labels.nil /\ missing # {} THEN [res |-> "panic", labels |-> NilLabels]
        ELSE [res |-> "ok",
              labels |-> [nil |-> labels.nil,
                          m |-> [k \in (DOMAIN labels.m) \cup missing |->
                                    IF k \in DOMAIN labels.m THEN labels.m[k] ELSE Filler]]]

\* MetricCollector.cleanLabels: fills every declared label the map lacks with
\* the filler (an assignment, which panics on a nil map), then deletes every
\* key that is not declared.
cleanLabels(c, metricName, labels) ==
    LET i == FindMetric(c.config, metricName)
        declared == IF i = 0 THEN <<>> ELSE c.config.Metrics[i].Labels
        missing == Range(declared) \ DOMAIN labels.m
        filled == [k \in (DOMAIN labels.m) \cup missing |->
                      IF k \in DOMAIN labels.m THEN labels.m[k] ELSE Filler]
        kept == [k \in {x \in DOMAIN filled : Contains(declared, x)} |-> filled[k]]
    IN  IF i = 0 THEN [res |-> "not found", labels |-> NilLabels]
        ELSE IF labels.nil /\ missing # {} THEN [res |-> "panic", labels |-> NilLabels]
        ELSE [res |-> "ok", labels |-> [nil |-> labels.nil, m |-> kept]]

Ret(c, res, clean) == [coll |-> c, res |-> res, clean |-> clean]

UpdateGaugeNilOnMissing(c, name, value, labels) ==
    IF name \notin DOMAIN c.gauges THEN Ret(c, "ok", NilLabels)
    ELSE LET cl == cleanLabels(c, name, labels)
             gauge == c.gauges[name]
         IN  IF cl.res # "ok" THEN Ret(c, cl.res, NilLabels)
             ELSE IF ~VecAccepts(gauge, cl.labels) THEN Ret(c, "panic", cl.labels)
             ELSE LET vec == VecWith(gauge, cl.labels, 0)
                  IN  Ret([c EXCEPT !.gauges[name] =
                              [vec EXCEPT !.children[cl.labels.m] = GaugeSet(@, value)]],
                          "ok", cl.labels)

\* MetricCollector.UpdateGauge
UpdateGauge(c, name, value, labels) ==
    IF name \notin DOMAIN c.gauges THEN Ret(c, "not found", NilLabels)
    ELSE LET cl == cleanLabels(c, name, labels)
             gauge == c.gauges[name]
         IN  IF cl.res # "ok" THEN Ret(c, cl.res, NilLabels)
             ELSE IF ~VecAccepts(gauge, cl.labels) THEN Ret(c, "panic", cl.labels)
             ELSE LET vec == VecWith(gauge, cl.labels, 0)
                  IN  Ret([c EXCEPT !.gauges[name] =
                              [vec EXCEPT !.children[cl.labels.m] = GaugeSet(@, value)]],
                          "ok", cl.labels)

\* IncrementCounterBy that registers a counter for a name it does not find
IncrementCounterByRegisters(c, name, value, labels) ==
    IF name \notin DOMAIN c.counters
    THEN Ret([c EXCEPT !.counters = Put(@, name, NewVec(<<>>, <<>>))], "not found", NilLabels)
    ELSE LET cl == cleanLabels(c, name, labels)
             counter == c.counters[name]
         IN  IF cl.res # "ok" THEN Ret(c, cl.res, NilLabels)
             ELSE IF ~VecAccepts(counter, cl.labels) THEN Ret(c, "panic", cl.labels)
             ELSE LET vec == VecWith(counter, cl.labels, 0)
                  IN  IF CounterAddPanics(value)
                      THEN Ret([c EXCEPT !.counters[name] = vec], "panic", cl.labels)
                      ELSE Ret([c EXCEPT !.counters[name] =
                                  [vec EXCEPT !.children[cl.labels.m] = CounterAdd(@, value)]],
                               "ok", cl.labels)

\* MetricCollector.IncrementCounterBy
IncrementCounterBy(c, name, value, labels) ==
    IF name \notin DOMAIN c.counters THEN Ret(c, "not found", NilLabels)
    ELSE LET cl == cleanLabels(c, name, labels)
             counter == c.counters[name]
         IN  IF cl.res # "ok" THEN Ret(c, cl.res, NilLabels)
             ELSE IF ~VecAccepts(counter, cl.labels) THEN Ret(c, "panic", cl.labels)
             ELSE LET vec == VecWith(counter, cl.labels, 0)
                  IN  IF CounterAddPanics(value)
                      THEN Ret([c EXCEPT !.counters[name] = vec], "panic", cl.labels)
                      ELSE Ret([c EXCEPT !.counters[name] =
                                  [vec EXCEPT !.children[cl.labels.m] = CounterAdd(@, value)]],
                               "ok", cl.labels)

\* MetricCollector.IncrementCounter
IncrementCounter(c, name, labels) == IncrementCounterBy(c, name, 1, labels)

\* MetricCollector.ObserveHistogram
ObserveHistogram(c, name, value, labels) ==
    IF name \notin DOMAIN c.histograms THEN Ret(c, "not found", NilLabels)
    ELSE LET cl == cleanLabels(c, name, labels)
             histogram == c.histograms[name]
         IN  IF cl.res # "ok" THEN Ret(c, cl.res, NilLabels)
             ELSE IF ~VecAccepts(histogram, cl.labels) THEN Ret(c, "panic", cl.labels)
             ELSE LET vec == VecWith(histogram, cl.labels, HistogramZero(histogram.buckets))
                  IN  Ret([c EXCEPT !.histograms[name] =
                              [vec EXCEPT !.children[cl.labels.m] =
                                  HistogramObserve(@, histogram.buckets, value)]],
                          "ok", cl.labels)

\* MetricCollector.ObserveSummary
ObserveSummary(c, name, value, labels) ==
    IF name \notin DOMAIN c.summaries THEN Ret(c, "not found", NilLabels)
    ELSE LET cl == cleanLabels(c, name, labels)
             summary == c.summaries[name]
         IN  IF cl.res # "ok" THEN Ret(c, cl.res, NilLabels)
             ELSE IF ~VecAccepts(summary, cl.labels) THEN Ret(c, "panic", cl.labels)
             ELSE LET vec == VecWith(summary, cl.labels, SummaryZero)
                  IN  Ret([c EXCEPT !.summaries[name] =
                              [vec EXCEPT !.children[cl.labels.m] = SummaryObserve(@, value)]],
                          "ok", cl.labels)

\* The switch of PushHandler over the parsed metric type
Dispatch(c, type, name, value, labels) ==
    IF type = MetricTypeGauge THEN UpdateGauge(c, name, value, labels)
    ELSE IF type = MetricTypeCounter THEN IncrementCounterBy(c, name, value, labels)
    ELSE IF type = MetricTypeHistogram THEN ObserveHistogram(c, name, value, labels)
    ELSE ObserveSummary(c, name, value, labels)

(***************************************************************************)
(* Inputs.                                                                 *)
(***************************************************************************)
GlobalConfig(namespace, refresh) ==
    [Namespace |-> namespace, RefreshInterval |-> refresh, parsedInterval |-> 0]

\* The configuration the running collector is built from: one metric of each
\* kind, with two, one, one and no declared labels.
RunFile ==
    [Global |-> GlobalConfig(<<"n">>, "30s"),
     Metrics |-> <<MetricConfig(<<"g">>, MetricTypeGauge, <<"job", "env">>, <<>>, {}),
                   MetricConfig(<<"c">>, MetricTypeCounter, <<"job">>, <<>>, {}),
                   MetricConfig(<<"h">>, MetricTypeHistogram, <<"job">>, <<1>>, {}),
                   MetricConfig(<<"s">>, MetricTypeSummary, <<>>, <<>>, {"0.5"})>>]

\* Names an update call may carry: the four registered ones and an unknown one
CallNames == {<<"g">>, <<"c">>, <<"h">>, <<"s">>, <<"u">>}

Values == {-1, 1, 2}

LabelMaps ==
    {EmptyMap, [k \in {"job"} |-> "x"], [k \in {"job"} |-> "y"], [k \in {"env"} |-> "x"],
     [k \in {"job", "env"} |-> "x"]}

\* The label maps of a call: the nil map and the allocated ones
InputLabels == {NilLabels} \cup {MakeLabels(f) : f \in LabelMaps}

\* Definitions a configuration file may hold
DefNames == {<<>>, <<"a">>, <<"j", "-", "a">>, <<"j", ".", "a">>, <<"1", "a">>, <<"_", "1", "a">>}

DefVariants ==
    {[type |-> MetricTypeGauge, buckets |-> <<>>, objectives |-> {}],
     [type |-> MetricTypeCounter, buckets |-> <<>>, objectives |-> {}],
     [type |-> MetricTypeHistogram, buckets |-> <<>>, objectives |-> {}],
     [type |-> MetricTypeHistogram, buckets |-> <<1>>, objectives |-> {}],
     [type |-> MetricTypeSummary, buckets |-> <<>>, objectives |-> {}],
     [type |-> MetricTypeSummary, buckets |-> <<>>, objectives |-> {"0.5"}],
     [type |-> "timer", buckets |-> <<>>, objectives |-> {}]}

Defs ==
    {MetricConfig(n, v.type, <<"job">>, v.buckets, v.objectives) : n \in DefNames, v \in DefVariants}

Globals == {GlobalConfig(ns, r) : ns \in {<<>>, <<"n">>}, r \in {"30s", "soon"}}

Files ==
    {[Global |-> g, Metrics |-> ms] :
        g \in Globals, ms \in UNION {[1..n -> Defs] : n \in 0..MaxDefs}}

Procs == 1..NumProcs

\* Label maps of the concurrent callers: both normalize to {job: "x"} on counter c
ConcLabels == {MakeLabels([k \in {"job"} |-> "x"]), MakeLabels([k \in {"job", "env"} |-> "x"])}

NoErr == [stage |-> "", err |-> ""]

NoCall ==
    [op |-> "none", name |-> <<>>, value |-> 0, labels |-> NilLabels,
     res |-> "", clean |-> NilLabels]

NoReq == [name |-> <<>>, value |-> 0, labels |-> NilLabels, clean |-> NilLabels, res |-> ""]

(***************************************************************************)
(* The running collector: one action per update operation.                 *)
(***************************************************************************)
\* The entry of lastSet after a completed Set of v: the value, and how many
\* completed Sets in a row have carried it.
NextSet(ls, key, v) ==
    [v |-> v, reps |-> IF key \in DOMAIN ls /\ ls[key].v = v THEN ls[key].reps + 1 ELSE 1]

Record(op, r, name, value, labels) ==
    /\ coll' = r.coll
    /\ last' = [op |-> op, name |-> name, value |-> value, labels |-> labels,
                res |-> r.res, clean |-> r.clean]
    /\ nops' = nops + 1

DoUpdateGauge ==
    /\ phase = "serving"
    /\ nops < MaxOps
    /\ \E name \in CallNames, value \in Values, labels \in InputLabels :
          LET r == UpdateGauge(coll, name, value, labels)
          IN  /\ Record("UpdateGauge", r, name, value, labels)
              /\ lastSet' = IF r.res = "ok"
                            THEN Put(lastSet, <<name, r.clean.m>>,
                                     NextSet(lastSet, <<name, r.clean.m>>, value))
                            ELSE lastSet
    /\ UNCHANGED <<file, config, phase, startErr, scheme, applied, pc, req, calls>>

DoIncrementCounterBy ==
    /\ phase = "serving"
    /\ nops < MaxOps
    /\ \E name \in CallNames, value \in Values, labels \in InputLabels :
          LET r == IncrementCounterBy(coll, name, value, labels)
              key == <<name, r.clean.m>>
          IN  /\ Record("IncrementCounterBy", r, name, value, labels)
              /\ applied' = IF r.res = "ok"
                            THEN Put(applied, key,
                                     (IF key \in DOMAIN applied THEN applied[key] ELSE 0) + value)
                            ELSE applied
    /\ UNCHANGED <<file, config, phase, startErr, scheme, lastSet, pc, req, calls>>

DoObserveHistogram ==
    /\ phase = "serving"
    /\ nops < MaxOps
    /\ \E name \in CallNames, value \in Values, labels \in InputLabels :
          Record("ObserveHistogram", ObserveHistogram(coll, name, value, labels),
                 name, value, labels)
    /\ UNCHANGED <<file, config, phase, startErr, scheme, applied, lastSet, pc, req, calls>>

DoObserveSummary ==
    /\ phase = "serving"
    /\ nops < MaxOps
    /\ \E name \in CallNames, value \in Values, labels \in InputLabels :
          Record("ObserveSummary", ObserveSummary(coll, name, value, labels),
                 name, value, labels)
    /\ UNCHANGED <<file, config, phase, startErr, scheme, applied, lastSet, pc, req, calls>>

InitCalls ==
    /\ last = NoCall
    /\ nops = 0
    /\ applied = EmptyMap
    /\ lastSet = EmptyMap
    /\ pc = [p \in Procs |-> "idle"]
    /\ req = [p \in Procs |-> NoReq]
    /\ calls = [p \in Procs |-> 0]

\* The state Serve reaches with RunFile once the collector is built.  The
\* collector is the one either name validation scheme builds (RunFile's names
\* are valid under both, so the two coincide); scheme names neither.
InitServing ==
    /\ file = RunFile
    /\ config = LoadConfig(RunFile).config
    /\ \E sch \in NameValidationSchemes : coll = NewMetricCollector(config, sch).coll
    /\ scheme = "either"
    /\ phase = "serving"
    /\ startErr = NoErr

Init == InitServing /\ InitCalls

Next == DoUpdateGauge \/ DoIncrementCounterBy \/ DoObserveHistogram \/ DoObserveSummary

Spec == Init /\ [][Next]_vars

(***************************************************************************)
(* Start-up: Serve loads and validates the configuration, then builds the  *)
(* collector; push requests are served only afterwards.                    *)
(***************************************************************************)
\* Serve: cfg, err := config.LoadConfig(flags.ConfigFile)
ServeLoadConfig ==
    /\ phase = "start"
    /\ LET r == LoadConfig(file)
       IN  /\ config' = r.config
           /\ IF r.err # ""
              THEN /\ phase' = "failed"
                   /\ startErr' = [stage |-> "loading configuration", err |-> r.err]
              ELSE /\ phase' = "loaded"
                   /\ startErr' = startErr
    /\ UNCHANGED <<file, coll, scheme, last, nops, applied, lastSet, pc, req, calls>>

\* Serve: coll, err := collector.NewMetricCollector(cfg, registry).  The
\* library's name validation scheme is read here for the first time.
ServeNewMetricCollector ==
    /\ phase = "loaded"
    /\ \E sch \in NameValidationSchemes :
          LET r == NewMetricCollector(config, sch)
          IN  /\ scheme' = sch
              /\ IF r.err # ""
                 THEN /\ phase' = "failed"
                      /\ startErr' = [stage |-> "initializing metric collector", err |-> r.err]
                      /\ coll' = coll
                 ELSE /\ phase' = "built"
                      /\ startErr' = startErr
                      /\ coll' = r.coll
    /\ UNCHANGED <<file, config, last, nops, applied, lastSet, pc, req, calls>>

\* Serve: the handlers are created and routed, and the goroutine calls
\* http.ListenAndServe.  Either the listener is up, or ListenAndServe fails
\* (the address is taken) and log.Fatal ends the process.  The build
\* information gauge registered in between is no definition of the
\* configuration and is left out of the collector.
ServeListenAndServe ==
    /\ phase = "built"
    /\ \/ /\ phase' = "serving"
          /\ startErr' = startErr
       \/ /\ phase' = "failed"
          /\ startErr' = [stage |-> "starting HTTP server", err |-> "ListenError"]
    /\ UNCHANGED <<file, config, coll, scheme, last, nops, applied, lastSet, pc, req, calls>>

\* PrometheusHandler: one exposition read of the registry; it changes no
\* metric.
ServeMetrics ==
    /\ phase = "serving"
    /\ nops < MaxOps
    /\ last' = [NoCall EXCEPT !.op = "PrometheusHandler", !.res = "ok"]
    /\ nops' = nops + 1
    /\ UNCHANGED <<file, config, phase, startErr, coll, scheme, applied, lastSet, pc, req, calls>>

OpOfType(type) ==
    IF type = MetricTypeGauge THEN "UpdateGauge"
    ELSE IF type = MetricTypeCounter THEN "IncrementCounterBy"
    ELSE IF type = MetricTypeHistogram THEN "ObserveHistogram"
    ELSE "ObserveSummary"

\* A push request for one of the configured definitions: its name, its kind,
\* the value 1 and a value for each of its declared labels.
PushDefinition ==
    /\ phase = "serving"
    /\ nops < MaxOps
    /\ \E i \in 1..Len(config.Metrics) :
          LET m == config.Metrics[i]
              labels == MakeLabels([k \in Range(m.Labels) |-> "x"])
              r == Dispatch(coll, m.Type, m.Name, 1, labels)
              key == <<m.Name, r.clean.m>>
          IN  /\ Record(OpOfType(m.Type), r, m.Name, 1, labels)
              /\ lastSet' = IF m.Type = MetricTypeGauge /\ r.res = "ok"
                            THEN Put(lastSet, key, NextSet(lastSet, key, 1)) ELSE lastSet
              /\ applied' = IF m.Type = MetricTypeCounter /\ r.res = "ok"
                            THEN Put(applied, key,
                                     (IF key \in DOMAIN applied THEN applied[key] ELSE 0) + 1)
                            ELSE applied
    /\ UNCHANGED <<file, config, phase, startErr, scheme, pc, req, calls>>

InitBuild ==
    /\ file \in Files
    /\ config = file
    /\ phase = "start"
    /\ startErr = NoErr
    /\ coll = EmptyCollector(file)
    /\ scheme = "unread"
    /\ InitCalls

NextBuild ==
    \/ ServeLoadConfig
    \/ ServeNewMetricCollector
    \/ ServeListenAndServe
    \/ ServeMetrics
    \/ PushDefinition

SpecBuild == InitBuild /\ [][NextBuild]_vars

(***************************************************************************)
(* The push endpoint: PushHandler decodes one request, validates it and    *)
(* hands it to the collector operation of its kind.                        *)
(***************************************************************************)
\* config.ParseMetricType is generated from the ENUM(gauge, counter,
\* histogram, summary) comment; the generated file is not part of the source
\* tree, so this follows the specification: a string outside the four kinds
\* yields an unsupported-kind error.
ParseMetricType(s) ==
    IF s \in MetricTypes
    THEN [err |-> "", type |-> s]
    ELSE [err |-> "UnsupportedKind", type |-> ""]

\* The body of a push request as json.Unmarshal decodes it
MetricUpdate(name, type, value, labels) ==
    [Name |-> name, Type |-> type, Value |-> value, Labels |-> labels]

\* The zero MetricUpdate: what the handler holds before the body is decoded
NoUpdate == MetricUpdate(<<>>, "", 0, NilLabels)

\* The response of PushHandler: the collector afterwards, the HTTP status,
\* the outcome, the collector operation that was invoked ("none" when the
\* request was answered before the switch) and the labels it normalized.
Response(c, status, res, op, clean) ==
    [coll |-> c, status |-> status, res |-> res, op |-> op, clean |-> clean]

\* The status PushHandler answers with once the collector operation is back:
\* 200, or 400 for an update error.  A panic of the operation unwinds the
\* handler before it writes anything: status 0, the connection is dropped.
StatusOf(res) == IF res = "ok" THEN 200 ELSE IF res = "panic" THEN 0 ELSE 400

\* The response once the collector operation op has returned u
Responded(u, op) == Response(u.coll, StatusOf(u.res), u.res, op, u.clean)

\* PushHandler without the check of update.Name
PushHandlerNoNameCheck(c, r) ==
    IF r.method # "POST" THEN Response(c, 405, "MethodNotAllowed", "none", NilLabels)
    ELSE IF ~r.wellFormed THEN Response(c, 400, "ParseError", "none", NilLabels)
    ELSE LET update == r.update
             pt == ParseMetricType(update.Type)
         IN  IF pt.err # "" THEN Response(c, 400, pt.err, "none", NilLabels)
             ELSE LET u == Dispatch(c, pt.type, update.Name, update.Value, update.Labels)
                  IN  Responded(u, OpOfType(pt.type))

\* PushHandler
PushHandler(c, r) ==
    IF r.method # "POST" THEN Response(c, 405, "MethodNotAllowed", "none", NilLabels)
    ELSE IF ~r.wellFormed THEN Response(c, 400, "ParseError", "none", NilLabels)
    ELSE LET update == r.update
         IN  IF update.Name = <<>> THEN Response(c, 400, "EmptyName", "none", NilLabels)
             ELSE LET pt == ParseMetricType(update.Type)
                  IN  IF pt.err # "" THEN Response(c, 400, pt.err, "none", NilLabels)
                      ELSE LET u == Dispatch(c, pt.type, update.Name, update.Value,
                                             update.Labels)
                           IN  Responded(u, OpOfType(pt.type))

\* The kind strings a push request may carry: the four kinds, an unknown one
\* and the empty string
PushTypes == MetricTypes \cup {"timer", ""}

PushNames == {<<>>, <<"g">>, <<"c">>, <<"s">>, <<"u">>}

PushValues == {-1, 1}

PushLabels == {NilLabels, MakeLabels(EmptyMap), MakeLabels([k \in {"job"} |-> "x"])}

\* The requests: one with another method, one with a body that is not JSON,
\* and the well-formed updates
PushRequests ==
    {[method |-> "GET", wellFormed |-> TRUE, update |-> NoUpdate],
     [method |-> "POST", wellFormed |-> FALSE, update |-> NoUpdate]}
    \cup {[method |-> "POST", wellFormed |-> TRUE, update |-> MetricUpdate(n, t, v, l)] :
            n \in PushNames, t \in PushTypes, v \in PushValues, l \in PushLabels}

\* The state after PushHandler has answered update u with resp
Answer(resp, u) ==
    /\ coll' = resp.coll
    /\ last' = [op |-> resp.op, name |-> u.Name, value |-> u.Value,
                labels |-> u.Labels, res |-> resp.res, clean |-> resp.clean,
                type |-> u.Type, status |-> resp.status]
    /\ nops' = nops + 1
    /\ lastSet' = IF resp.op = "UpdateGauge" /\ resp.res = "ok"
                  THEN Put(lastSet, <<u.Name, resp.clean.m>>,
                           NextSet(lastSet, <<u.Name, resp.clean.m>>, u.Value))
                  ELSE lastSet
    /\ applied' = IF resp.op = "IncrementCounterBy" /\ resp.res = "ok"
                  THEN Put(applied, <<u.Name, resp.clean.m>>,
                           (IF <<u.Name, resp.clean.m>> \in DOMAIN applied
                            THEN applied[<<u.Name, resp.clean.m>>] ELSE 0) + u.Value)
                  ELSE applied

\* One request served by PushHandler
DoPushHandler ==
    /\ phase = "serving"
    /\ nops < MaxOps
    /\ \E r \in PushRequests : Answer(PushHandler(coll, r), r.update)
    /\ UNCHANGED <<file, config, phase, startErr, scheme, pc, req, calls>>

NextPush == DoPushHandler

SpecPush == Init /\ [][NextPush]_vars

(***************************************************************************)
(* Concurrent callers of IncrementCounter on counter c: each step of       *)
(* IncrementCounterBy that touches shared state is one action.             *)
(***************************************************************************)
ConcCounter == <<"c">>

\* IncrementCounter -> IncrementCounterBy(name, 1, labels): the lookup under
\* the read lock and the early return
ConcLookup(p) ==
    /\ pc[p] = "idle"
    /\ calls[p] < MaxCalls
    /\ \E labels \in ConcLabels :
          IF ConcCounter \notin DOMAIN coll.counters
          THEN /\ req' = [req EXCEPT ![p] = [NoReq EXCEPT !.name = ConcCounter, !.value = 1,
                                                          !.labels = labels, !.res = "not found"]]
               /\ pc' = pc
          ELSE /\ req' = [req EXCEPT ![p] = [NoReq EXCEPT !.name = ConcCounter, !.value = 1,
                                                          !.labels = labels]]
               /\ pc' = [pc EXCEPT ![p] = "looked"]
    /\ UNCHANGED <<file, config, phase, startErr, coll, scheme, last, nops, applied, lastSet,
                   calls>>

\* labelsWithFillers, err := c.cleanLabels(name, labels)
ConcCleanLabels(p) ==
    /\ pc[p] = "looked"
    /\ LET cl == cleanLabels(coll, req[p].name, req[p].labels)
       IN  IF cl.res # "ok"
           THEN /\ req' = [req EXCEPT ![p].res = cl.res]
                /\ pc' = [pc EXCEPT ![p] = "idle"]
           ELSE /\ req' = [req EXCEPT ![p].clean = cl.labels]
                /\ pc' = [pc EXCEPT ![p] = "cleaned"]
    /\ UNCHANGED <<file, config, phase, startErr, coll, scheme, last, nops, applied, lastSet,
                   calls>>

\* counter.With(labelsWithFillers)
ConcWith(p) ==
    /\ pc[p] = "cleaned"
    /\ IF ~VecAccepts(coll.counters[req[p].name], req[p].clean)
       THEN /\ req' = [req EXCEPT ![p].res = "panic"]
            /\ pc' = [pc EXCEPT ![p] = "idle"]
            /\ coll' = coll
       ELSE /\ coll' = [coll EXCEPT !.counters[req[p].name] = VecWith(@, req[p].clean, 0)]
            /\ pc' = [pc EXCEPT ![p] = "withed"]
            /\ req' = req
    /\ UNCHANGED <<file, config, phase, startErr, scheme, last, nops, applied, lastSet, calls>>

\* .Add(value), and the return
ConcAdd(p) ==
    /\ pc[p] = "withed"
    /\ IF CounterAddPanics(req[p].value)
       THEN /\ req' = [req EXCEPT ![p].res = "panic"]
            /\ UNCHANGED <<coll, calls>>
       ELSE /\ coll' = [coll EXCEPT !.counters[req[p].name].children[req[p].clean.m] =
                                       CounterAdd(@, req[p].value)]
            /\ req' = [req EXCEPT ![p].res = "ok"]
            /\ calls' = [calls EXCEPT ![p] = @ + 1]
    /\ pc' = [pc EXCEPT ![p] = "idle"]
    /\ UNCHANGED <<file, config, phase, startErr, scheme, last, nops, applied, lastSet>>

NextConc ==
    \E p \in Procs : ConcLookup(p) \/ ConcCleanLabels(p) \/ ConcWith(p) \/ ConcAdd(p)

SpecConc == Init /\ [][NextConc]_vars

(***************************************************************************)
(* Vocabulary of the properties.                                           *)
(***************************************************************************)
MapOfOp(c, op) ==
    IF op = "UpdateGauge" THEN c.gauges
    ELSE IF op = "IncrementCounterBy" THEN c.counters
    ELSE IF op = "ObserveHistogram" THEN c.histograms
    ELSE c.summaries

UpdateOps == {"UpdateGauge", "IncrementCounterBy", "ObserveHistogram", "ObserveSummary"}

\* The last call addressed a metric registered under the kind of its operation
LastOnRegistered == last.op \in UpdateOps /\ last.name \in DOMAIN MapOfOp(coll, last.op)

\* Declared labels of the metric the last call named
LastDeclared == Range(MapOfOp(coll, last.op)[last.name].labelNames)

LastChildren == MapOfOp(coll, last.op)[last.name].children

\* The combination the specification prescribes for a label map
ExpectedCombo(declared, labels) ==
    [k \in declared |-> IF k \in DOMAIN labels.m THEN labels.m[k] ELSE Filler]

AllVecs(c) ==
    {c.gauges[n] : n \in DOMAIN c.gauges} \cup {c.counters[n] : n \in DOMAIN c.counters}
    \cup {c.histograms[n] : n \in DOMAIN c.histograms}
    \cup {c.summaries[n] : n \in DOMAIN c.summaries}

\* A call was made in this step
CallStep == nops' = nops + 1

(***************************************************************************)
(* C1: an update whose label map lacks declared labels succeeds and stores *)
(* the combination with exactly the declared keys, the filler "<missing>"  *)
(* for each absent label and the supplied value for each present one.      *)
(* This fails: a nil label map panics in cleanLabels, and a negative delta *)
(* panics in Counter.Add.                                                  *)
(***************************************************************************)
C1_MissingLabelsFilled ==
    (LastOnRegistered /\ ~(LastDeclared \subseteq DOMAIN last.labels.m)) =>
        /\ last.res = "ok"
        /\ DOMAIN last.clean.m = LastDeclared
        /\ last.clean.m = ExpectedCombo(LastDeclared, last.labels)
        /\ last.clean.m \in DOMAIN LastChildren

\* What the code does guarantee: whenever such an update completes, the
\* stored combination is the prescribed one.
C1_FilledWhenCompleted ==
    (LastOnRegistered /\ ~(LastDeclared \subseteq DOMAIN last.labels.m) /\ last.res = "ok") =>
        /\ ~last.labels.nil
        /\ last.clean.m = ExpectedCombo(LastDeclared, last.labels)
        /\ last.clean.m \in DOMAIN LastChildren

(***************************************************************************)
(* C2: an update whose label map is a superset of the declared labels L is *)
(* normalized to exactly L, every declared key keeping the supplied value, *)
(* and no stored combination of any metric holds an undeclared label.      *)
(***************************************************************************)
C2_SupersetNormalized ==
    /\ (LastOnRegistered /\ LastDeclared \subseteq DOMAIN last.labels.m) =>
          /\ DOMAIN last.clean.m = LastDeclared
          /\ \A k \in LastDeclared : last.clean.m[k] = last.labels.m[k]
          /\ last.clean.m \in DOMAIN LastChildren
    /\ \A vec \in AllVecs(coll) : \A combo \in DOMAIN vec.children :
          DOMAIN combo = Range(vec.labelNames)

C2_Witness ==
    /\ LastOnRegistered
    /\ last.res = "ok"
    /\ LastDeclared \subseteq DOMAIN last.labels.m
    /\ LastDeclared # DOMAIN last.labels.m
    /\ LastDeclared # {}

(***************************************************************************)
(* C3: an update naming a metric with no definition returns "not found",   *)
(* changes no aggregation and leaves the collector serving; an update of a *)
(* registered metric right after it completes.                             *)
(***************************************************************************)
Unknown(name) == FindMetric(coll.config, name) = 0

C3_UnknownNameRejected ==
    [][CallStep =>
        /\ Unknown(last'.name) =>
              /\ last'.res = "not found"
              /\ coll' = coll
              /\ applied' = applied /\ lastSet' = lastSet
              /\ phase' = "serving"
        /\ ( /\ last.res = "not found" /\ Unknown(last.name)
             /\ last'.name \in DOMAIN MapOfOp(coll, last'.op)
             /\ ~last'.labels.nil
             /\ last'.value >= 0 ) => last'.res = "ok"
      ]_vars

C3_Witness ==
    /\ last.op \in UpdateOps
    /\ Unknown(last.name)
    /\ last.res = "not found"
    /\ nops = 2
    /\ \E vec \in AllVecs(coll) : vec.children # EmptyMap

(***************************************************************************)
(* C4: an operation of one kind on a name registered under another kind    *)
(* returns "not found" and changes no aggregation.                         *)
(***************************************************************************)
C4_KindCheckedLookup ==
    [][(CallStep /\ ~Unknown(last'.name)
          /\ OpOfType(coll.config.Metrics[FindMetric(coll.config, last'.name)].Type) # last'.op)
        => (last'.res = "not found" /\ coll' = coll /\ applied' = applied /\ lastSet' = lastSet)
      ]_vars

C4_Witness ==
    /\ last.op = "IncrementCounterBy"
    /\ last.name = <<"g">>
    /\ last.name \in DOMAIN coll.gauges
    /\ last.res = "not found"

(***************************************************************************)
(* C5: on every counter and combination the stored value is the sum of the *)
(* deltas of the completed IncrementCounterBy calls (all non-negative),    *)
(* and it never decreases from one step to the next.                       *)
(***************************************************************************)
AppliedSum(name, combo) ==
    IF <<name, combo>> \in DOMAIN applied THEN applied[<<name, combo>>] ELSE 0

CounterSumInv ==
    /\ \A name \in DOMAIN coll.counters : \A combo \in DOMAIN coll.counters[name].children :
          coll.counters[name].children[combo] = AppliedSum(name, combo)
    /\ \A key \in DOMAIN applied :
          /\ key[1] \in DOMAIN coll.counters
          /\ key[2] \in DOMAIN coll.counters[key[1]].children

CounterMonotone ==
    \A name \in DOMAIN coll.counters : \A combo \in DOMAIN coll.counters[name].children :
        /\ combo \in DOMAIN coll'.counters[name].children
        /\ coll'.counters[name].children[combo] >= coll.counters[name].children[combo]

C5_CounterSum == []CounterSumInv /\ [][CounterMonotone]_vars

C5_Witness ==
    /\ nops = 2
    /\ last.op = "IncrementCounterBy" /\ last.res = "ok" /\ last.value = 2
    /\ coll.counters[last.name].children[last.clean.m] = 3

(***************************************************************************)
(* C6: concurrent IncrementCounter calls on one counter and combination,   *)
(* under every interleaving of their steps, lose no update: the stored     *)
(* value is the number of completed calls, and once all N calls are done   *)
(* it is N.                                                                *)
(***************************************************************************)
RECURSIVE SumCalls(_)
SumCalls(n) == IF n = 0 THEN 0 ELSE calls[n] + SumCalls(n - 1)

ConcCombo == [k \in {"job"} |-> "x"]

ConcValue ==
    IF ConcCombo \in DOMAIN coll.counters[ConcCounter].children
    THEN coll.counters[ConcCounter].children[ConcCombo]
    ELSE 0

ConcAllDone == \A p \in Procs : pc[p] = "idle" /\ calls[p] = MaxCalls

C6_NoLostUpdate ==
    /\ ConcValue = SumCalls(NumProcs)
    /\ ConcAllDone => ConcValue = NumProcs * MaxCalls
    /\ DOMAIN coll.counters[ConcCounter].children \subseteq {ConcCombo}

C6_Witness == ConcAllDone /\ ConcValue = NumProcs * MaxCalls /\ NumProcs >= 2

(***************************************************************************)
(* C7: on every gauge and combination exactly one value is stored, the one *)
(* of the UpdateGauge call completed last; repeating a call with the same  *)
(* value and labels leaves the collector as it is.                         *)
(***************************************************************************)
GaugeLastWriteInv ==
    /\ \A name \in DOMAIN coll.gauges : \A combo \in DOMAIN coll.gauges[name].children :
          /\ <<name, combo>> \in DOMAIN lastSet
          /\ coll.gauges[name].children[combo] = lastSet[<<name, combo>>].v
    /\ \A key \in DOMAIN lastSet :
          /\ key[1] \in DOMAIN coll.gauges
          /\ key[2] \in DOMAIN coll.gauges[key[1]].children
    /\ (last.op = "UpdateGauge" /\ last.res = "ok") =>
          /\ coll.gauges[last.name].children[last.clean.m] = last.value
          /\ Cardinality({combo \in DOMAIN coll.gauges[last.name].children :
                 \A k \in DOMAIN combo :
                    combo[k] = (IF k \in DOMAIN last.labels.m THEN last.labels.m[k] ELSE Filler)})
             = 1

GaugeRepeatIdempotent ==
    (CallStep /\ last'.op = "UpdateGauge" /\ last'.res = "ok"
       /\ <<last'.name, last'.clean.m>> \in DOMAIN lastSet
       /\ lastSet[<<last'.name, last'.clean.m>>].v = last'.value)
    => coll' = coll

C7_GaugeLastWriteWins == []GaugeLastWriteInv /\ [][GaugeRepeatIdempotent]_vars

C7_Witness ==
    /\ last.op = "UpdateGauge" /\ last.res = "ok"
    /\ lastSet[<<last.name, last.clean.m>>].reps = 2
    /\ coll.gauges[last.name].children[last.clean.m] = last.value
    /\ Cardinality(DOMAIN coll.gauges[last.name].children) = 1

(***************************************************************************)
(* C8: with valid global settings, validation fails exactly when some      *)
(* definition has an empty name, is a histogram without buckets, is a      *)
(* summary without objectives, has a kind outside the four, or shares its  *)
(* name with an earlier definition; otherwise it succeeds and leaves the   *)
(* definitions and their order as they were.                               *)
(***************************************************************************)
GlobalValid(f) == f.Global.Namespace # <<>> /\ f.Global.RefreshInterval = "30s"

BadDefinition(ms, i) ==
    \/ ms[i].Name = <<>>
    \/ ms[i].Type = MetricTypeHistogram /\ ms[i].Buckets = <<>>
    \/ ms[i].Type = MetricTypeSummary /\ ms[i].Objectives = {}
    \/ ms[i].Type \notin MetricTypes
    \/ \E j \in 1..(i - 1) : ms[j].Name = ms[i].Name

ValidationDone == phase # "start"

ValidationFailed == phase = "failed" /\ startErr.stage = "loading configuration"

C8_ValidationIff ==
    (ValidationDone /\ GlobalValid(file)) =>
        /\ ValidationFailed <=> (\E i \in 1..Len(file.Metrics) : BadDefinition(file.Metrics, i))
        /\ ~ValidationFailed => config.Metrics = file.Metrics

C8_Witness ==
    /\ ValidationFailed
    /\ GlobalValid(file)
    /\ startErr.err = "DuplicateName"
    /\ Len(file.Metrics) = 2

C8_WitnessAccepted ==
    /\ ValidationDone /\ ~ValidationFailed
    /\ Len(file.Metrics) = 2
    /\ config.Metrics = file.Metrics

(***************************************************************************)
(* C9: valid definitions whose sanitized names are pairwise distinct build *)
(* a collector, and an update of the matching kind addressed to each       *)
(* definition's name finds its aggregation and succeeds, a name such as    *)
(* "j-a" included.  This fails: the collector registers the raw name, and  *)
(* the library's legacy name validation rejects it.                        *)
(***************************************************************************)
BuildDone == phase = "serving" \/ (phase = "failed" /\ startErr.stage = "initializing metric collector")

SanitizedDistinct(ms) ==
    \A i, j \in 1..Len(ms) :
        i # j => sanitizeMetricName(ms[i].Name) # sanitizeMetricName(ms[j].Name)

SanitizedCollision(ms) ==
    \E i, j \in 1..Len(ms) :
        /\ ms[i].Name # ms[j].Name
        /\ sanitizeMetricName(ms[i].Name) = sanitizeMetricName(ms[j].Name)

C10_CollisionFailsBuild ==
    (BuildDone /\ SanitizedCollision(config.Metrics)) =>
        /\ phase = "failed"
        /\ startErr.err = "RegistrationError"

(***************************************************************************)
(* C12: a decoded push request with an empty name is answered with the     *)
(* empty-name error, and one with a name and a kind string outside gauge,  *)
(* counter, histogram, summary with the unsupported-kind error; both are   *)
(* answered before any collector operation is invoked, and the collector   *)
(* is left as it was.                                                      *)
(***************************************************************************)
\* The last request reached the validation of the decoded update
Decoded(l) == l.res \notin {"MethodNotAllowed", "ParseError"}

RejectedAtBoundary ==
    nops > 0 =>
        /\ (Decoded(last) /\ last.name = <<>>) =>
              (last.res = "EmptyName" /\ last.op = "none" /\ last.status = 400)
        /\ (Decoded(last) /\ last.name # <<>> /\ last.type \notin MetricTypes) =>
              (last.res = "UnsupportedKind" /\ last.op = "none" /\ last.status = 400)

RejectionChangesNothing ==
    (CallStep /\ Decoded(last') /\ (last'.name = <<>> \/ last'.type \notin MetricTypes)) =>
        /\ coll' = coll
        /\ applied' = applied
        /\ lastSet' = lastSet

C12_PushRejectedBeforeCollector == []RejectedAtBoundary /\ [][RejectionChangesNothing]_vars

\* An unsupported kind for the registered name g is rejected after an update
\* has been stored, and an empty name with a supported kind likewise
C12_Witness ==
    /\ nops = 2
    /\ \E vec \in AllVecs(coll) : DOMAIN vec.children # {}
    /\ \/ last.name = <<"g">> /\ last.type = "timer" /\ last.res = "UnsupportedKind"
       \/ last.name = <<>> /\ last.type = MetricTypeGauge /\ last.res = "EmptyName"

(***************************************************************************)
(* C13: a push request whose body omits labels, addressed to a registered  *)
(* metric with at least one declared label, completes successfully and     *)
(* stores the combination in which every declared label is "<missing>".    *)
(* This fails: the omitted field is decoded to a nil map, and cleanLabels  *)
(* assigns into it, which panics; the handler is aborted and nothing is    *)
(* stored.  Negative counter deltas, which panic on their own, are left    *)
(* out of the case.                                                        *)
(***************************************************************************)
C13_NilLabelsNormalized ==
    (/\ LastOnRegistered
     /\ last.labels.nil
     /\ LastDeclared # {}
     /\ (last.op = "IncrementCounterBy" => last.value >= 0)) =>
        /\ last.res = "ok"
        /\ last.clean.m = [k \in LastDeclared |-> Filler]
        /\ last.clean.m \in DOMAIN LastChildren

(***************************************************************************)
(* C14: IncrementCounterBy on a registered counter, whatever the delta,    *)
(* either completes or returns an error; it never panics.  This fails: a   *)
(* negative delta makes Counter.Add panic, after With has already created  *)
(* the combination.  Nil label maps, which panic on their own, are left    *)
(* out of the case.                                                        *)
(***************************************************************************)
C14_AnyDeltaReturns ==
    (/\ LastOnRegistered
     /\ last.op = "IncrementCounterBy"
     /\ ~last.labels.nil) =>
        last.res \in {"ok", "not found"}

(***************************************************************************)
(* C11: serving begins only after the collector has been built from every  *)
(* definition.  Every push request and every exposition read is handled    *)
(* with the listener up and all definitions registered; when loading or    *)
(* validating the configuration or building the collector fails, Serve     *)
(* returns that error, no listener is ever started and no request is ever  *)
(* handled.                                                                *)
(***************************************************************************)
\* Every definition of the configuration is registered: under its name in
\* the map of its kind, and under its full name in the registry
AllRegistered(c) ==
    \A i \in 1..Len(c.config.Metrics) :
        LET m == c.config.Metrics[i]
        IN  /\ m.Name \in DOMAIN MapOfOp(c, OpOfType(m.Type))
            /\ BuildFQName(c.config.Global.Namespace, m.Name) \in c.registry

ListenerStarted == phase = "serving"

StartupFailed ==
    phase = "failed" /\ startErr.stage \in {"loading configuration", "initializing metric collector"}

BuildBeforeServing ==
    /\ nops > 0 => ListenerStarted
    /\ ListenerStarted =>
          /\ LoadConfig(file).err = ""
          /\ config = LoadConfig(file).config
          /\ coll.config = config
          /\ AllRegistered(coll)
          /\ startErr = NoErr
    /\ (phase # "start" /\ LoadConfig(file).err # "") =>
          (StartupFailed /\ startErr.err = LoadConfig(file).err)
    /\ (phase \notin {"start", "loaded"} /\ LoadConfig(file).err = ""
          /\ NewMetricCollector(config, scheme).err # "") =>
          (StartupFailed /\ startErr.err = NewMetricCollector(config, scheme).err)
    /\ StartupFailed => (nops = 0 /\ last.op = "none")

StartupOrder ==
    /\ phase = "failed" => phase' = "failed"
    /\ (phase' = "serving" /\ phase # "serving") => phase = "built"
    /\ phase = "serving" => coll'.registry = coll.registry

C11_BuildBeforeServing == []BuildBeforeServing /\ [][StartupOrder]_vars

\* A request is handled by a collector built from two definitions
C11_Witness ==
    /\ ListenerStarted
    /\ Len(config.Metrics) = 2
    /\ config.Metrics[1].Name # config.Metrics[2].Name
    /\ last.op \in UpdateOps \cup {"PrometheusHandler"}
    /\ last.res = "ok"

\* The build fails on the second definition and Serve returns
C11_WitnessFailed ==
    /\ StartupFailed
    /\ startErr.stage = "initializing metric collector"
    /\ Len(config.Metrics) = 2

(***************************************************************************)
(* C15: once the collector is built, the registered names and the kind     *)
(* each is registered under never change: no update, successful or failed, *)
(* adds, removes or re-kinds an entry of the name-to-aggregation maps.     *)
(***************************************************************************)
\* The names registered under each kind, with what each was declared with
RegisteredKinds(c) ==
    [op \in UpdateOps |->
        [n \in DOMAIN MapOfOp(c, op) |->
            <<MapOfOp(c, op)[n].labelNames, MapOfOp(c, op)[n].buckets>>]]

KindsAsBuilt ==
    \E sch \in NameValidationSchemes :
        RegisteredKinds(coll) = RegisteredKinds(NewMetricCollector(config, sch).coll)

KindsUnchanged ==
    /\ RegisteredKinds(coll') = RegisteredKinds(coll)
    /\ coll'.registry = coll.registry
    /\ coll'.config = coll.config

C15_RegisteredKindsFrozen == []KindsAsBuilt /\ [][KindsUnchanged]_vars

\* After a successful and then a failed update the maps are as built
C15_Witness ==
    /\ nops = 2
    /\ last.res # "ok"
    /\ \E vec \in AllVecs(coll) : DOMAIN vec.children # {}
    /\ DOMAIN coll.gauges = {<<"g">>}
    /\ DOMAIN coll.counters = {<<"c">>}

(***************************************************************************)
(* C16: a successful update writes exactly one label combination of one    *)
(* metric, the normalized combination of the metric it names: that         *)
(* combination is stored afterwards, every other metric and every other    *)
(* combination of the same metric keeps its value, and no update, whatever *)
(* its outcome, deletes a stored combination.                              *)
(***************************************************************************)
ChildrenOf(c, op, n) == MapOfOp(c, op)[n].children

SuccessWritesOneCombination ==
    (CallStep /\ last'.res = "ok") =>
        /\ last'.clean.m \in DOMAIN ChildrenOf(coll', last'.op, last'.name)
        /\ \A op \in UpdateOps : \A n \in DOMAIN MapOfOp(coll, op) :
              /\ DOMAIN ChildrenOf(coll', op, n) =
                    DOMAIN ChildrenOf(coll, op, n)
                    \cup (IF <<op, n>> = <<last'.op, last'.name>> THEN {last'.clean.m} ELSE {})
              /\ \A k \in DOMAIN ChildrenOf(coll, op, n) :
                    <<op, n, k>> # <<last'.op, last'.name, last'.clean.m>> =>
                        ChildrenOf(coll', op, n)[k] = ChildrenOf(coll, op, n)[k]

CombinationsOnlyGrow ==
    \A op \in UpdateOps : \A n \in DOMAIN MapOfOp(coll, op) :
        /\ n \in DOMAIN MapOfOp(coll', op)
        /\ DOMAIN ChildrenOf(coll, op, n) \subseteq DOMAIN ChildrenOf(coll', op, n)

C16_UpdateFrame == [][SuccessWritesOneCombination /\ CombinationsOnlyGrow]_vars

\* The second successful update stores a second combination of the metric
\* the first one wrote, and the first combination is still there
C16_Witness ==
    /\ nops = 2
    /\ last.res = "ok"
    /\ Cardinality(DOMAIN LastChildren) = 2

====
